---- MODULE Spec2Model ----
(***************************************************************************)
(* The ditto key-value store (src/C/src/ditto.c): the hash table with its  *)
(* table-wide mutex, the subscription slot table with its mutex, and the   *)
(* public entry points that caller threads drive.                          *)
(*                                                                         *)
(* A C pointer argument is NULL or Ptr(x), x being what it points to.  A   *)
(* key is the byte sequence of its C string, a value the byte sequence     *)
(* data[0..len-1].  A call by thread t is a sequence of steps, one per     *)
(* mutex section of the code: the entry point with its argument check,     *)
(* pthread_mutex_lock, the section that runs under the mutex, and for the  *)
(* fan-out one step per callback invoked.                                  *)
(***************************************************************************)
EXTENDS Integers, Sequences, FiniteSets, TLC

VARIABLES
    buckets,        \* hash_table_t.buckets: the chains (head first) of the buckets
                    \* whose head is not NULL, by bucket index
    table_lock,     \* hash_table_t.lock: the thread holding it, or NoThread
    subscriptions,  \* ditto_db.subscriptions: the slots written since calloc, by index
    next_sub_id,    \* ditto_db.next_sub_id
    sub_lock,       \* ditto_db.sub_lock: the thread holding it, or NoThread
    pc,             \* per thread: where it stands in its current call
    call,           \* per thread: entry point and arguments of its current (or last) call
    ret,            \* per thread: status and out-parameters of that call
    notify_i,       \* per thread: loop index i of notify_subscribers
    invoked,        \* per thread: the callback invocations its current (or last) call made
    last_mut,       \* history: per key, the most recent successful mutation
    last_op,        \* history: the most recent successful mutation, and what a put replaced
    released,       \* history: ids for which ditto_unsubscribe took the slot away
    granted,        \* history: the successful ditto_subscribe calls in order, each with
                    \* the slot it filled, the id it returned and the callback and
                    \* context it was given
    window,         \* history, per call on a key K in progress: the states K has had
                    \* since the call was invoked or, once the call has itself mutated
                    \* K, since that mutation
    db_mem          \* the memory ditto_open allocated for the handle: "open", "freed"
                    \* by ditto_close, or "freed_touched" once a call has used it after

vars == <<buckets, table_lock, subscriptions, next_sub_id, sub_lock, pc, call,
          ret, notify_i, invoked, last_mut, last_op, released, granted, window, db_mem>>

(***************************************************************************)
(* Program constants                                                       *)
(***************************************************************************)
MAX_SUBSCRIPTIONS == 100

HASH_SIZE == 256

\* 2^16: one half of a uint32_t
WORD16 == 256 * 256

HASH_SEED == 5381

\* what every entry point returns for a NULL argument
ARGUMENT_ERROR == -1

\* the largest and the smallest value of the int32_t field db->next_sub_id
INT32_MAX == 2147483647

INT32_MIN == -INT32_MAX - 1

(***************************************************************************)
(* Bounds of the model                                                     *)
(***************************************************************************)
\* largest buffer capacity a ditto_get caller passes
MaxCap == 2

\* ditto_subscribe is not called any more once next_sub_id exceeds this
MaxSubId == 3

\* the same, where two threads run concurrently
MaxConcId == 2

\* ditto_subscribe calls made beyond the first MAX_SUBSCRIPTIONS, where the table
\* is filled
MaxRefill == 2

(***************************************************************************)
(* Pointers, threads, inputs                                               *)
(***************************************************************************)
NULL == <<>>

Ptr(x) == <<x>>

Deref(p) == p[1]

Threads == {"t1", "t2"}

\* the frame in which a callback invoked by thread t's fan-out makes its own calls
callback_of(t) == IF t = "t1" THEN "t1.callback" ELSE "t2.callback"

CallbackFrames == {callback_of(t) : t \in Threads}

\* every context that can be inside an entry point: a caller thread, or a callback
\* running on a caller thread
Frames == Threads \cup CallbackFrames

\* the thread on which frame f runs
thread_of(f) == IF f \in Threads THEN f ELSE CHOOSE t \in Threads : callback_of(t) = f

NoThread == "none"

\* the handle ditto_open stored in *out_db
DB == Ptr("db")

\* "a", "a@" (same bucket as "a") and "b"
KeyA == <<97>>

KeyA2 == <<97, 64>>

KeyB == <<98>>

Keys == {KeyA, KeyA2, KeyB}

Values == {<<>>, <<7>>, <<5>>, <<8, 9>>}

\* the byte a caller's destination buffer holds before ditto_get
FILL == 170

\* which allocation of hash_table_put returns NULL, if it is attempted
AllocOutcomes == {"none", "entry", "key", "data"}

Buffer(cap) == [j \in 1..cap |-> FILL]

(***************************************************************************)
(* Hash table                                                              *)
(***************************************************************************)
\* uint32_t arithmetic is done on 16-bit halves <<high, low>>, so that the
\* wrap-around of (hash << 5) + hash + c at 2^32 is computed exactly
uint32_mul33_add(hash, c) ==
    LET low  == hash[2] * 33 + c
        high == hash[1] * 33 + (low \div WORD16)
    IN  <<high % WORD16, low % WORD16>>

RECURSIVE hash_loop(_, _)
hash_loop(hash, str) ==
    IF str = <<>> THEN hash
    ELSE hash_loop(uint32_mul33_add(hash, Head(str)), Tail(str))

hash_string(str) ==
    LET hash == hash_loop(<<HASH_SEED \div WORD16, HASH_SEED % WORD16>>, str)
    IN  (((hash[1] % HASH_SIZE) * (WORD16 % HASH_SIZE)) + hash[2]) % HASH_SIZE

\* calloc(1, sizeof(hash_table_t)): every one of the HASH_SIZE heads is NULL
hash_table_create == [b \in {} |-> <<>>]

\* table->buckets[idx]: the chain at idx, empty when the head is NULL
bucket(tbl, idx) == IF idx \in DOMAIN tbl THEN tbl[idx] ELSE <<>>

\* table->buckets[idx] after it, or the chain it heads, has been rewritten
set_bucket(tbl, idx, chain) ==
    IF chain = <<>>
    THEN [b \in (DOMAIN tbl) \ {idx} |-> tbl[b]]
    ELSE [b \in (DOMAIN tbl) \cup {idx} |-> IF b = idx THEN chain ELSE tbl[b]]

\* the while (entry) scan with strcmp: position of the first entry for key, 0 if none
chain_find(chain, key) ==
    IF \E p \in 1..Len(chain) : chain[p].key = key
    THEN CHOOSE p \in 1..Len(chain) :
             /\ chain[p].key = key
             /\ \A q \in 1..(p - 1) : chain[q].key # key
    ELSE 0

\* mutant of hash_table_put: the chain is not searched for the key
hash_table_put_always_inserts(tbl, key, data, len, alloc) ==
    LET idx   == hash_string(key)
        chain == bucket(tbl, idx)
        bytes == SubSeq(data, 1, len)
    IN  IF alloc \in {"entry", "key", "data"}
        THEN [rc |-> -1, buckets |-> tbl]
        ELSE [rc |-> 0,
              buckets |-> set_bucket(tbl, idx,
                              <<[key |-> key, data |-> bytes, len |-> len]>> \o chain)]

\* mutant of hash_table_put: a new entry is not linked into its bucket
hash_table_put_unlinked(tbl, key, data, len, alloc) ==
    LET idx   == hash_string(key)
        chain == bucket(tbl, idx)
        pos   == chain_find(chain, key)
        bytes == SubSeq(data, 1, len)
    IN  IF pos > 0
        THEN IF alloc = "data"
             THEN [rc |-> -1, buckets |-> tbl]
             ELSE [rc |-> 0,
                   buckets |-> set_bucket(tbl, idx, [chain EXCEPT ![pos] =
                                   [key |-> @.key, data |-> bytes, len |-> len]])]
        ELSE IF alloc \in {"entry", "key", "data"}
             THEN [rc |-> -1, buckets |-> tbl]
             ELSE [rc |-> 0, buckets |-> tbl]

\* mutant of hash_table_put: an update that frees entry->data before malloc
hash_table_put_frees_first(tbl, key, data, len, alloc) ==
    LET idx   == hash_string(key)
        chain == bucket(tbl, idx)
        pos   == chain_find(chain, key)
        bytes == SubSeq(data, 1, len)
    IN  IF pos > 0
        THEN IF alloc = "data"
             THEN [rc |-> -1,
                   buckets |-> set_bucket(tbl, idx, [chain EXCEPT ![pos] =
                                   [key |-> @.key, data |-> <<>>, len |-> 0]])]
             ELSE [rc |-> 0,
                   buckets |-> set_bucket(tbl, idx, [chain EXCEPT ![pos] =
                                   [key |-> @.key, data |-> bytes, len |-> len]])]
        ELSE IF alloc \in {"entry", "key", "data"}
             THEN [rc |-> -1, buckets |-> tbl]
             ELSE [rc |-> 0,
                   buckets |-> set_bucket(tbl, idx,
                                   <<[key |-> key, data |-> bytes, len |-> len]>>
                                   \o chain)]

\* mutant of hash_table_put: an update that forgets entry->len = len
hash_table_put_stale_len(tbl, key, data, len, alloc) ==
    LET idx   == hash_string(key)
        chain == bucket(tbl, idx)
        pos   == chain_find(chain, key)
        bytes == SubSeq(data, 1, len)
    IN  IF pos > 0
        THEN IF alloc = "data"
             THEN [rc |-> -1, buckets |-> tbl]
             ELSE [rc |-> 0,
                   buckets |-> set_bucket(tbl, idx, [chain EXCEPT ![pos] =
                                   [key |-> @.key, data |-> bytes, len |-> @.len]])]
        ELSE IF alloc \in {"entry", "key", "data"}
             THEN [rc |-> -1, buckets |-> tbl]
             ELSE [rc |-> 0,
                   buckets |-> set_bucket(tbl, idx,
                                   <<[key |-> key, data |-> bytes, len |-> len]>>
                                   \o chain)]

hash_table_put(tbl, key, data, len, alloc) ==
    LET idx   == hash_string(key)
        chain == bucket(tbl, idx)
        pos   == chain_find(chain, key)
        bytes == SubSeq(data, 1, len)
    IN  IF pos > 0
        THEN IF alloc = "data"
             THEN [rc |-> -1, buckets |-> tbl]
             ELSE [rc |-> 0,
                   buckets |-> set_bucket(tbl, idx, [chain EXCEPT ![pos] =
                                   [key |-> @.key, data |-> bytes, len |-> len]])]
        ELSE IF alloc = "entry"
             THEN [rc |-> -1, buckets |-> tbl]
             ELSE IF alloc \in {"key", "data"}
                  THEN [rc |-> -1, buckets |-> tbl]
                  ELSE [rc |-> 0,
                        buckets |-> set_bucket(tbl, idx,
                                        <<[key |-> key, data |-> bytes, len |-> len]>>
                                        \o chain)]

\* mutant of hash_table_get: copies what fits before reporting a buffer too small
hash_table_get_partial_copy(tbl, key, out_buf, cap) ==
    LET idx   == hash_string(key)
        chain == bucket(tbl, idx)
        pos   == chain_find(chain, key)
    IN  IF pos > 0
        THEN LET entry == chain[pos]
             IN  IF out_buf = NULL
                 THEN [rc |-> 1, out_buf |-> out_buf, inout_len |-> entry.len]
                 ELSE IF cap < entry.len
                      THEN [rc |-> 1,
                            out_buf |-> Ptr(SubSeq(entry.data, 1, cap)),
                            inout_len |-> entry.len]
                      ELSE [rc |-> 0,
                            out_buf |-> Ptr(entry.data \o
                                            SubSeq(Deref(out_buf), entry.len + 1,
                                                   Len(Deref(out_buf)))),
                            inout_len |-> entry.len]
        ELSE [rc |-> 2, out_buf |-> out_buf, inout_len |-> cap]

\* mutant of hash_table_get: *inout_len <= entry->len taken as too small
hash_table_get_off_by_one(tbl, key, out_buf, cap) ==
    LET idx   == hash_string(key)
        chain == bucket(tbl, idx)
        pos   == chain_find(chain, key)
    IN  IF pos > 0
        THEN LET entry == chain[pos]
             IN  IF out_buf = NULL
                 THEN [rc |-> 1, out_buf |-> out_buf, inout_len |-> entry.len]
                 ELSE IF cap <= entry.len
                      THEN [rc |-> 1, out_buf |-> out_buf, inout_len |-> entry.len]
                      ELSE [rc |-> 0,
                            out_buf |-> Ptr(entry.data \o
                                            SubSeq(Deref(out_buf), entry.len + 1,
                                                   Len(Deref(out_buf)))),
                            inout_len |-> entry.len]
        ELSE [rc |-> 2, out_buf |-> out_buf, inout_len |-> cap]

\* out_buf is NULL or Ptr(the caller's buffer), cap the caller's *inout_len
\* mutant of hash_table_get: an entry of length 0 counts as not found
hash_table_get_empty_is_absent(tbl, key, out_buf, cap) ==
    LET idx   == hash_string(key)
        chain == bucket(tbl, idx)
        pos   == chain_find(chain, key)
    IN  IF pos > 0 /\ chain[pos].len > 0
        THEN LET entry == chain[pos]
             IN  IF out_buf = NULL
                 THEN [rc |-> 1, out_buf |-> out_buf, inout_len |-> entry.len]
                 ELSE IF cap < entry.len
                      THEN [rc |-> 1, out_buf |-> out_buf, inout_len |-> entry.len]
                      ELSE [rc |-> 0,
                            out_buf |-> Ptr(entry.data \o
                                            SubSeq(Deref(out_buf), entry.len + 1,
                                                   Len(Deref(out_buf)))),
                            inout_len |-> entry.len]
        ELSE [rc |-> 2, out_buf |-> out_buf, inout_len |-> cap]

hash_table_get(tbl, key, out_buf, cap) ==
    LET idx   == hash_string(key)
        chain == bucket(tbl, idx)
        pos   == chain_find(chain, key)
    IN  IF pos > 0
        THEN LET entry == chain[pos]
             IN  IF out_buf = NULL
                 THEN [rc |-> 1, out_buf |-> out_buf, inout_len |-> entry.len]
                 ELSE IF cap < entry.len
                      THEN [rc |-> 1, out_buf |-> out_buf, inout_len |-> entry.len]
                      ELSE [rc |-> 0,
                            out_buf |-> Ptr(entry.data \o
                                            SubSeq(Deref(out_buf), entry.len + 1,
                                                   Len(Deref(out_buf)))),
                            inout_len |-> entry.len]
        ELSE [rc |-> 2, out_buf |-> out_buf, inout_len |-> cap]

\* mutant of hash_table_delete: table->buckets[idx] = entry->next whatever prev is
hash_table_delete_ignores_prev(tbl, key) ==
    LET idx   == hash_string(key)
        chain == bucket(tbl, idx)
        pos   == chain_find(chain, key)
    IN  IF pos > 0
        THEN [rc |-> 0,
              buckets |-> set_bucket(tbl, idx, SubSeq(chain, pos + 1, Len(chain)))]
        ELSE [rc |-> 2, buckets |-> tbl]

hash_table_delete(tbl, key) ==
    LET idx   == hash_string(key)
        chain == bucket(tbl, idx)
        pos   == chain_find(chain, key)
    IN  IF pos > 0
        THEN [rc |-> 0,
              buckets |-> set_bucket(tbl, idx,
                              SubSeq(chain, 1, pos - 1) \o
                              SubSeq(chain, pos + 1, Len(chain)))]
        ELSE [rc |-> 2, buckets |-> tbl]

(***************************************************************************)
(* Subscription table                                                      *)
(***************************************************************************)
\* a slot of the calloc'ed ditto_db
empty_slot == [id |-> 0, callback |-> NULL, user_data |-> NULL, active |-> 0]

Slots == 0..(MAX_SUBSCRIPTIONS - 1)

\* db->subscriptions[s]
slot(subs, s) == IF s \in DOMAIN subs THEN subs[s] ELSE empty_slot

\* db->subscriptions[s] after its fields have been assigned
set_slot(subs, s, sub) ==
    [q \in (DOMAIN subs) \cup {s} |-> IF q = s THEN sub ELSE subs[q]]

\* mutant of find_free_slot: the loop runs from the last slot down
find_free_slot_from_last(subs) ==
    IF \E s \in Slots : slot(subs, s).active = 0
    THEN CHOOSE s \in Slots :
             /\ slot(subs, s).active = 0
             /\ \A q \in (s + 1)..(MAX_SUBSCRIPTIONS - 1) : slot(subs, q).active # 0
    ELSE -1

\* mutant of find_free_slot: the loop stops one slot short
find_free_slot_one_short(subs) ==
    IF \E s \in 0..(MAX_SUBSCRIPTIONS - 2) : slot(subs, s).active = 0
    THEN CHOOSE s \in 0..(MAX_SUBSCRIPTIONS - 2) :
             /\ slot(subs, s).active = 0
             /\ \A q \in 0..(s - 1) : slot(subs, q).active # 0
    ELSE -1

\* the for loop of ditto_subscribe: the first slot that is not active, -1 if none
find_free_slot(subs) ==
    IF \E s \in Slots : slot(subs, s).active = 0
    THEN CHOOSE s \in Slots :
             /\ slot(subs, s).active = 0
             /\ \A q \in 0..(s - 1) : slot(subs, q).active # 0
    ELSE -1

\* db->next_sub_id after db->next_sub_id++ on the int32_t field.  At INT32_MAX the
\* increment overflows a signed integer, which C leaves undefined; the compiled
\* library wraps to INT32_MIN, at -O0 and at -O2 alike.
int32_increment(x) == IF x = INT32_MAX THEN INT32_MIN ELSE x + 1

\* mutant of subscribe_section: the id is derived from the slot, not from next_sub_id
subscribe_section_id_from_slot(subs, next_id, cb, user_data, out_sub_id) ==
    LET s == find_free_slot(subs)
    IN  IF s >= 0
        THEN [rc |-> 0,
              subscriptions |-> set_slot(subs, s,
                  [id |-> s + 1, callback |-> cb, user_data |-> user_data, active |-> 1]),
              next_sub_id |-> int32_increment(next_id),
              out_sub_id |-> Ptr(s + 1)]
        ELSE [rc |-> -1, subscriptions |-> subs, next_sub_id |-> next_id,
              out_sub_id |-> out_sub_id]

\* ditto_subscribe between pthread_mutex_lock and pthread_mutex_unlock
subscribe_section(subs, next_id, cb, user_data, out_sub_id) ==
    LET s == find_free_slot(subs)
    IN  IF s >= 0
        THEN [rc |-> 0,
              subscriptions |-> set_slot(subs, s,
                  [id |-> next_id, callback |-> cb, user_data |-> user_data, active |-> 1]),
              next_sub_id |-> int32_increment(next_id),
              out_sub_id |-> Ptr(next_id)]
        ELSE [rc |-> -1, subscriptions |-> subs, next_sub_id |-> next_id,
              out_sub_id |-> out_sub_id]

\* mutant of find_subscription: the id is compared without looking at active
find_subscription_ignores_active(subs, sub_id) ==
    IF \E s \in Slots : slot(subs, s).id = sub_id
    THEN CHOOSE s \in Slots :
             /\ slot(subs, s).id = sub_id
             /\ \A q \in 0..(s - 1) : slot(subs, q).id # sub_id
    ELSE -1

\* the for loop of ditto_unsubscribe: the first active slot holding sub_id, -1 if none
find_subscription(subs, sub_id) ==
    IF \E s \in Slots : slot(subs, s).active # 0 /\ slot(subs, s).id = sub_id
    THEN CHOOSE s \in Slots :
             /\ slot(subs, s).active # 0 /\ slot(subs, s).id = sub_id
             /\ \A q \in 0..(s - 1) : ~(slot(subs, q).active # 0 /\ slot(subs, q).id = sub_id)
    ELSE -1

\* ditto_unsubscribe between pthread_mutex_lock and pthread_mutex_unlock
unsubscribe_section(subs, sub_id) ==
    LET s == find_subscription(subs, sub_id)
    IN  IF s >= 0
        THEN [rc |-> 0,
              subscriptions |-> set_slot(subs, s,
                  [id |-> slot(subs, s).id, callback |-> NULL, user_data |-> NULL,
                   active |-> 0])]
        ELSE [rc |-> -1, subscriptions |-> subs]

\* mutant of next_notified: the loop breaks at the first slot that is not active
next_notified_stops_at_gap(subs, i) ==
    IF i < MAX_SUBSCRIPTIONS /\ slot(subs, i).active # 0 /\ slot(subs, i).callback # NULL
    THEN i
    ELSE MAX_SUBSCRIPTIONS

\* notify_subscribers: the next slot at or after i whose callback the loop invokes,
\* MAX_SUBSCRIPTIONS when the loop runs out
next_notified(subs, i) ==
    IF \E s \in i..(MAX_SUBSCRIPTIONS - 1) : slot(subs, s).active # 0 /\ slot(subs, s).callback # NULL
    THEN CHOOSE s \in i..(MAX_SUBSCRIPTIONS - 1) :
             /\ slot(subs, s).active # 0 /\ slot(subs, s).callback # NULL
             /\ \A q \in i..(s - 1) : ~(slot(subs, q).active # 0 /\ slot(subs, q).callback # NULL)
    ELSE MAX_SUBSCRIPTIONS

(***************************************************************************)
(* State after ditto_open                                                  *)
(***************************************************************************)
NoCall == [op |-> "none"]

\* ret of a call that has not returned
NoRet == [pending |-> TRUE]

NoMutation == [op |-> "none", data |-> <<>>]

Init ==
    /\ buckets = hash_table_create
    /\ table_lock = NoThread
    /\ subscriptions = [s \in {} |-> empty_slot]
    /\ next_sub_id = 1
    /\ sub_lock = NoThread
    /\ pc = [t \in Frames |-> IF t \in Threads THEN "idle" ELSE "off"]
    /\ call = [t \in Frames |-> NoCall]
    /\ ret = [t \in Frames |-> NoRet]
    /\ notify_i = [t \in Frames |-> 0]
    /\ invoked = [t \in Frames |-> <<>>]
    /\ last_mut = [k \in Keys |-> NoMutation]
    /\ last_op = [op |-> "none"]
    /\ released = {}
    /\ granted = <<>>
    /\ window = [t \in Frames |-> {}]
    /\ db_mem = "open"

store_vars == <<buckets, table_lock, last_mut, last_op>>

registry_vars == <<subscriptions, next_sub_id, sub_lock, notify_i, released, granted>>

\* the calls on a key that are in progress, and the mutation each could have seen
keyed_call(t) ==
    /\ call[t].op \in {"put", "get", "delete"}
    /\ pc[t] \in {"table_lock", "table_body", "sub_lock", "notify", "in_callback"}

\* window after frame u has mutated key to state m
window_after(u, key, m) ==
    [t \in Frames |->
        IF t = u THEN {m}
        ELSE IF keyed_call(t) /\ Deref(call[t].key) = key THEN window[t] \cup {m}
        ELSE window[t]]

(***************************************************************************)
(* Entry points: the argument check of each ditto_* function               *)
(***************************************************************************)
\* what every entry point does to the caller's side: the call is recorded, and an
\* argument error returns at once
entered(t, c, bad, r, next) ==
    /\ call' = [call EXCEPT ![t] = c]
    /\ invoked' = [invoked EXCEPT ![t] = <<>>]
    /\ ret' = [ret EXCEPT ![t] = IF bad THEN r ELSE NoRet]
    /\ pc' = [pc EXCEPT ![t] = IF bad THEN "returned" ELSE next]
    /\ window' = [window EXCEPT ![t] =
                      IF ~bad /\ c.op \in {"put", "get", "delete"}
                      THEN {last_mut[Deref(c.key)]}
                      ELSE {}]
    /\ UNCHANGED db_mem

ditto_put(t, db, key, data) ==
    /\ pc[t] = "idle"
    /\ entered(t, [op |-> "put", db |-> db, key |-> key, data |-> data,
                   len |-> IF data = NULL THEN 0 ELSE Len(Deref(data))],
               db = NULL \/ key = NULL \/ data = NULL,
               [rc |-> ARGUMENT_ERROR], "table_lock")
    /\ UNCHANGED <<store_vars, registry_vars>>

ditto_get(t, db, key, out_buf, inout_len) ==
    /\ pc[t] = "idle"
    /\ entered(t, [op |-> "get", db |-> db, key |-> key, out_buf |-> out_buf,
                   inout_len |-> inout_len],
               db = NULL \/ key = NULL \/ inout_len = NULL,
               [rc |-> ARGUMENT_ERROR, out_buf |-> out_buf, inout_len |-> inout_len],
               "table_lock")
    /\ UNCHANGED <<store_vars, registry_vars>>

ditto_delete(t, db, key) ==
    /\ pc[t] = "idle"
    /\ entered(t, [op |-> "delete", db |-> db, key |-> key],
               db = NULL \/ key = NULL,
               [rc |-> ARGUMENT_ERROR], "table_lock")
    /\ UNCHANGED <<store_vars, registry_vars>>

ditto_subscribe(t, db, cb, user_data, out_sub_id) ==
    /\ pc[t] = "idle"
    /\ entered(t, [op |-> "subscribe", db |-> db, cb |-> cb, user_data |-> user_data,
                   out_sub_id |-> out_sub_id],
               db = NULL \/ cb = NULL \/ out_sub_id = NULL,
               [rc |-> ARGUMENT_ERROR, out_sub_id |-> out_sub_id], "sub_lock")
    /\ UNCHANGED <<store_vars, registry_vars>>

ditto_unsubscribe(t, db, sub_id) ==
    /\ pc[t] = "idle"
    /\ entered(t, [op |-> "unsubscribe", db |-> db, sub_id |-> sub_id],
               db = NULL,
               [rc |-> ARGUMENT_ERROR], "sub_lock")
    /\ UNCHANGED <<store_vars, registry_vars>>

\* ditto_close: hash_table_destroy frees every entry and the table, then db is
\* freed; the caller's copy of the handle stays as it is.  On a handle already
\* freed, if (!db) passes and db->table is read from freed memory: undefined
\* behaviour, after which the call returns or the process is stopped.
ditto_close(t, db, outcome) ==
    /\ pc[t] = "idle"
    /\ call' = [call EXCEPT ![t] = [op |-> "close", db |-> db]]
    /\ ret' = [ret EXCEPT ![t] = [void |-> TRUE]]
    /\ invoked' = [invoked EXCEPT ![t] = <<>>]
    /\ window' = [window EXCEPT ![t] = {}]
    /\ IF db = NULL
       THEN /\ pc' = [pc EXCEPT ![t] = "returned"]
            /\ UNCHANGED <<buckets, db_mem>>
       ELSE IF db_mem = "open"
       THEN /\ pc' = [pc EXCEPT ![t] = "returned"]
            /\ buckets' = hash_table_create
            /\ db_mem' = "freed"
       ELSE /\ pc' = [pc EXCEPT ![t] = outcome]
            /\ db_mem' = "freed_touched"
            /\ UNCHANGED buckets
    /\ UNCHANGED <<table_lock, last_mut, last_op, registry_vars>>

\* the caller has looked at the status and the out-parameters and goes on
caller_continues(t) ==
    /\ pc[t] = "returned"
    /\ pc' = [pc EXCEPT ![t] = "idle"]
    /\ call' = [call EXCEPT ![t] = NoCall]
    /\ ret' = [ret EXCEPT ![t] = NoRet]
    /\ invoked' = [invoked EXCEPT ![t] = <<>>]
    /\ window' = [window EXCEPT ![t] = {}]
    /\ UNCHANGED <<store_vars, registry_vars, db_mem>>

(***************************************************************************)
(* The hash table sections, under table->lock                              *)
(***************************************************************************)
\* mutant of lock_table: the mutex is taken whether or not it is held
lock_table_no_wait(t) ==
    /\ pc[t] = "table_lock"
    /\ table_lock' = t
    /\ pc' = [pc EXCEPT ![t] = "table_body"]
    /\ UNCHANGED <<buckets, last_mut, last_op, registry_vars, call, ret, invoked,
                   window, db_mem>>

\* pthread_mutex_lock(&table->lock)
lock_table(t) ==
    /\ pc[t] = "table_lock"
    /\ table_lock = NoThread
    /\ table_lock' = t
    /\ pc' = [pc EXCEPT ![t] = "table_body"]
    /\ UNCHANGED <<buckets, last_mut, last_op, registry_vars, call, ret, invoked,
                   window, db_mem>>

\* the value stored for key, NULL if there is none
stored(tbl, key) ==
    LET chain == bucket(tbl, hash_string(key))
        pos   == chain_find(chain, key)
    IN  IF pos > 0 THEN Ptr(chain[pos].data) ELSE NULL

\* mutant of put_locked: the table stays locked while the subscribers are notified
put_locked_notifies_locked(t, alloc) ==
    /\ pc[t] = "table_body"
    /\ call[t].op = "put"
    /\ LET key == Deref(call[t].key)
           r   == hash_table_put(buckets, key, Deref(call[t].data), call[t].len, alloc)
       IN  /\ buckets' = r.buckets
           /\ ret' = [ret EXCEPT ![t] = [rc |-> r.rc]]
           /\ pc' = [pc EXCEPT ![t] = IF r.rc = 0 THEN "sub_lock" ELSE "returned"]
           /\ table_lock' = IF r.rc = 0 THEN t ELSE NoThread
           /\ IF r.rc = 0
              THEN /\ last_mut' = [last_mut EXCEPT ![key] =
                                      [op |-> "put", data |-> Deref(call[t].data)]]
                   /\ last_op' = [op |-> "put", key |-> key, old |-> stored(buckets, key)]
                   /\ window' = window_after(t, key,
                                     [op |-> "put", data |-> Deref(call[t].data)])
              ELSE UNCHANGED <<last_mut, last_op, window>>
    /\ UNCHANGED <<registry_vars, call, invoked, db_mem>>

\* mutant of put_locked: the error returns of hash_table_put do not unlock
put_locked_error_keeps_lock(t, alloc) ==
    /\ pc[t] = "table_body"
    /\ call[t].op = "put"
    /\ LET key == Deref(call[t].key)
           r   == hash_table_put(buckets, key, Deref(call[t].data), call[t].len, alloc)
       IN  /\ buckets' = r.buckets
           /\ ret' = [ret EXCEPT ![t] = [rc |-> r.rc]]
           /\ pc' = [pc EXCEPT ![t] = IF r.rc = 0 THEN "sub_lock" ELSE "returned"]
           /\ table_lock' = IF r.rc = 0 THEN NoThread ELSE t
           /\ IF r.rc = 0
              THEN /\ last_mut' = [last_mut EXCEPT ![key] =
                                      [op |-> "put", data |-> Deref(call[t].data)]]
                   /\ last_op' = [op |-> "put", key |-> key, old |-> stored(buckets, key)]
                   /\ window' = window_after(t, key,
                                     [op |-> "put", data |-> Deref(call[t].data)])
              ELSE UNCHANGED <<last_mut, last_op, window>>
    /\ UNCHANGED <<registry_vars, call, invoked, db_mem>>

\* hash_table_put, then ditto_put's if (rc == 0)
put_locked(t, alloc) ==
    /\ pc[t] = "table_body"
    /\ call[t].op = "put"
    /\ LET key == Deref(call[t].key)
           r   == hash_table_put(buckets, key, Deref(call[t].data), call[t].len, alloc)
       IN  /\ buckets' = r.buckets
           /\ ret' = [ret EXCEPT ![t] = [rc |-> r.rc]]
           /\ pc' = [pc EXCEPT ![t] = IF r.rc = 0 THEN "sub_lock" ELSE "returned"]
           /\ IF r.rc = 0
              THEN /\ last_mut' = [last_mut EXCEPT ![key] =
                                      [op |-> "put", data |-> Deref(call[t].data)]]
                   /\ last_op' = [op |-> "put", key |-> key, old |-> stored(buckets, key)]
                   /\ window' = window_after(t, key,
                                     [op |-> "put", data |-> Deref(call[t].data)])
              ELSE UNCHANGED <<last_mut, last_op, window>>
    /\ table_lock' = NoThread
    /\ UNCHANGED <<registry_vars, call, invoked, db_mem>>

\* hash_table_get, returned by ditto_get
get_locked(t) ==
    /\ pc[t] = "table_body"
    /\ call[t].op = "get"
    /\ LET r == hash_table_get(buckets, Deref(call[t].key), call[t].out_buf,
                               Deref(call[t].inout_len))
       IN  ret' = [ret EXCEPT ![t] =
                      [rc |-> r.rc, out_buf |-> r.out_buf, inout_len |-> Ptr(r.inout_len)]]
    /\ pc' = [pc EXCEPT ![t] = "returned"]
    /\ table_lock' = NoThread
    /\ UNCHANGED <<buckets, last_mut, last_op, registry_vars, call, invoked,
                   window, db_mem>>

\* hash_table_delete, then ditto_delete's if (rc == 0)
delete_locked(t) ==
    /\ pc[t] = "table_body"
    /\ call[t].op = "delete"
    /\ LET key == Deref(call[t].key)
           r   == hash_table_delete(buckets, key)
       IN  /\ buckets' = r.buckets
           /\ ret' = [ret EXCEPT ![t] = [rc |-> r.rc]]
           /\ pc' = [pc EXCEPT ![t] = IF r.rc = 0 THEN "sub_lock" ELSE "returned"]
           /\ IF r.rc = 0
              THEN /\ last_mut' = [last_mut EXCEPT ![key] = [op |-> "delete", data |-> <<>>]]
                   /\ last_op' = [op |-> "delete", key |-> key]
                   /\ window' = window_after(t, key, [op |-> "delete", data |-> <<>>])
              ELSE UNCHANGED <<last_mut, last_op, window>>
    /\ table_lock' = NoThread
    /\ UNCHANGED <<registry_vars, call, invoked, db_mem>>

(***************************************************************************)
(* The subscription sections, under db->sub_lock                           *)
(***************************************************************************)
\* mutant of lock_sub: the mutex is taken whether or not it is held
lock_sub_no_wait(t) ==
    /\ pc[t] = "sub_lock"
    /\ sub_lock' = t
    /\ pc' = [pc EXCEPT ![t] = IF call[t].op \in {"put", "delete"} THEN "notify"
                               ELSE "sub_body"]
    /\ notify_i' = [notify_i EXCEPT ![t] = 0]
    /\ UNCHANGED <<store_vars, subscriptions, next_sub_id, released, granted,
                   call, ret, invoked, window, db_mem>>

\* mutant of lock_sub: a recursive mutex, which the thread holding it takes again
lock_sub_recursive(t) ==
    /\ pc[t] = "sub_lock"
    /\ IF sub_lock = NoThread THEN TRUE ELSE thread_of(sub_lock) = thread_of(t)
    /\ sub_lock' = t
    /\ pc' = [pc EXCEPT ![t] = IF call[t].op \in {"put", "delete"} THEN "notify"
                               ELSE "sub_body"]
    /\ notify_i' = [notify_i EXCEPT ![t] = 0]
    /\ UNCHANGED <<store_vars, subscriptions, next_sub_id, released, granted,
                   call, ret, invoked, window, db_mem>>

\* pthread_mutex_lock(&db->sub_lock) of notify_subscribers, ditto_subscribe
\* and ditto_unsubscribe
lock_sub(t) ==
    /\ pc[t] = "sub_lock"
    /\ sub_lock = NoThread
    /\ sub_lock' = t
    /\ pc' = [pc EXCEPT ![t] = IF call[t].op \in {"put", "delete"} THEN "notify"
                               ELSE "sub_body"]
    /\ notify_i' = [notify_i EXCEPT ![t] = 0]
    /\ UNCHANGED <<store_vars, subscriptions, next_sub_id, released, granted,
                   call, ret, invoked, window, db_mem>>

\* notify_subscribers: the loop up to and including its next callback invocation
notify_callback(t) ==
    /\ pc[t] = "notify"
    /\ LET s == next_notified(subscriptions, notify_i[t])
       IN  /\ s < MAX_SUBSCRIPTIONS
           /\ invoked' = [invoked EXCEPT ![t] = Append(@,
                  [slot |-> s, id |-> slot(subscriptions, s).id,
                   callback |-> slot(subscriptions, s).callback,
                   user_data |-> slot(subscriptions, s).user_data,
                   key |-> Deref(call[t].key)])]
           /\ notify_i' = [notify_i EXCEPT ![t] = s + 1]
    /\ UNCHANGED <<store_vars, subscriptions, next_sub_id, sub_lock, released, granted,
                   pc, call, ret, window, db_mem>>

\* notify_subscribers: as notify_callback, for a callback that makes calls on the
\* store before it returns; they are made in the callback's frame
callback_enters(t) ==
    /\ pc[t] = "notify"
    /\ LET s == next_notified(subscriptions, notify_i[t])
       IN  /\ s < MAX_SUBSCRIPTIONS
           /\ invoked' = [invoked EXCEPT ![t] = Append(@,
                  [slot |-> s, id |-> slot(subscriptions, s).id,
                   callback |-> slot(subscriptions, s).callback,
                   user_data |-> slot(subscriptions, s).user_data,
                   key |-> Deref(call[t].key)])]
           /\ notify_i' = [notify_i EXCEPT ![t] = s + 1]
    /\ pc' = [pc EXCEPT ![t] = "in_callback", ![callback_of(t)] = "idle"]
    /\ UNCHANGED <<store_vars, subscriptions, next_sub_id, sub_lock, released, granted,
                   call, ret, window, db_mem>>

\* the callback returns to the loop of notify_subscribers
callback_returns(t) ==
    /\ pc[t] = "in_callback"
    /\ pc[callback_of(t)] = "idle"
    /\ pc' = [pc EXCEPT ![t] = "notify", ![callback_of(t)] = "off"]
    /\ UNCHANGED <<store_vars, registry_vars, call, ret, invoked, window, db_mem>>

\* notify_subscribers: the loop runs out, pthread_mutex_unlock, and the
\* mutating call returns rc
notify_return(t) ==
    /\ pc[t] = "notify"
    /\ next_notified(subscriptions, notify_i[t]) = MAX_SUBSCRIPTIONS
    /\ sub_lock' = NoThread
    /\ notify_i' = [notify_i EXCEPT ![t] = 0]
    /\ pc' = [pc EXCEPT ![t] = "returned"]
    /\ UNCHANGED <<store_vars, subscriptions, next_sub_id, released, granted,
                   call, ret, invoked, window, db_mem>>

subscribe_locked(t) ==
    /\ pc[t] = "sub_body"
    /\ call[t].op = "subscribe"
    /\ LET r == subscribe_section(subscriptions, next_sub_id, call[t].cb,
                                  call[t].user_data, call[t].out_sub_id)
       IN  /\ subscriptions' = r.subscriptions
           /\ next_sub_id' = r.next_sub_id
           /\ ret' = [ret EXCEPT ![t] = [rc |-> r.rc, out_sub_id |-> r.out_sub_id]]
           /\ granted' = IF r.rc = 0
                         THEN Append(granted, [slot |-> find_free_slot(subscriptions),
                                               id |-> Deref(r.out_sub_id),
                                               cb |-> call[t].cb,
                                               user_data |-> call[t].user_data])
                         ELSE granted
    /\ sub_lock' = NoThread
    /\ pc' = [pc EXCEPT ![t] = "returned"]
    /\ UNCHANGED <<store_vars, notify_i, released, call, invoked, window, db_mem>>

unsubscribe_locked(t) ==
    /\ pc[t] = "sub_body"
    /\ call[t].op = "unsubscribe"
    /\ LET r == unsubscribe_section(subscriptions, call[t].sub_id)
       IN  /\ subscriptions' = r.subscriptions
           /\ ret' = [ret EXCEPT ![t] = [rc |-> r.rc]]
           /\ released' = IF r.rc = 0 THEN released \cup {call[t].sub_id} ELSE released
    /\ sub_lock' = NoThread
    /\ pc' = [pc EXCEPT ![t] = "returned"]
    /\ UNCHANGED <<store_vars, next_sub_id, notify_i, granted, call, invoked,
                   window, db_mem>>

(***************************************************************************)
(* Inputs of the entry points                                              *)
(***************************************************************************)
KeyPtrs == {Ptr(k) : k \in Keys}

DataPtrs == {Ptr(v) : v \in Values}

\* ditto_put: every key with every value, and each argument NULL in turn
PutArgs ==
    ({DB} \X KeyPtrs \X DataPtrs)
    \cup {<<NULL, Ptr(KeyA), Ptr(<<7>>)>>, <<DB, NULL, Ptr(<<7>>)>>, <<DB, Ptr(KeyA), NULL>>}

\* ditto_get: a buffer of cap bytes with *inout_len = cap, or no buffer at all
GetBuffers ==
    {<<Ptr(Buffer(cap)), Ptr(cap)>> : cap \in 0..MaxCap}
    \cup {<<NULL, Ptr(cap)>> : cap \in 0..MaxCap}

GetArgs ==
    {<<DB, k, b[1], b[2]>> : k \in KeyPtrs, b \in GetBuffers}
    \cup {<<NULL, Ptr(KeyA), Ptr(Buffer(1)), Ptr(1)>>,
          <<DB, NULL, Ptr(Buffer(1)), Ptr(1)>>,
          <<DB, Ptr(KeyA), Ptr(Buffer(1)), NULL>>}

DeleteArgs ==
    ({DB} \X KeyPtrs) \cup {<<NULL, Ptr(KeyA)>>, <<DB, NULL>>}

(***************************************************************************)
(* Spec: one caller thread driving put, get and delete                     *)
(***************************************************************************)
StoreCall(t) ==
    \/ \E a \in PutArgs : ditto_put(t, a[1], a[2], a[3])
    \/ \E a \in GetArgs : ditto_get(t, a[1], a[2], a[3], a[4])
    \/ \E a \in DeleteArgs : ditto_delete(t, a[1], a[2])

StoreStep(t) ==
    \/ lock_table(t)
    \/ \E alloc \in AllocOutcomes : put_locked(t, alloc)
    \/ get_locked(t)
    \/ delete_locked(t)
    \/ lock_sub(t)
    \/ notify_return(t)
    \/ caller_continues(t)

Next == StoreCall("t1") \/ StoreStep("t1")

Spec == Init /\ [][Next]_vars

(***************************************************************************)
(* SpecNotify: one caller thread driving the store and the registry        *)
(***************************************************************************)
\* callbacks and contexts a caller registers
Callbacks == {<<Ptr("cb1"), Ptr("ctx1")>>, <<Ptr("cb2"), NULL>>}

\* ditto_subscribe: *out_sub_id holds 0 before the call; each pointer NULL in turn
InvalidSubscribeArgs ==
    {<<NULL, Ptr("cb1"), Ptr("ctx1"), Ptr(0)>>,
     <<DB, NULL, Ptr("ctx1"), Ptr(0)>>,
     <<DB, Ptr("cb1"), Ptr("ctx1"), NULL>>}

\* ditto_subscribe is called while next_sub_id <= MaxSubId
SubscribeArgs ==
    IF next_sub_id <= MaxSubId
    THEN {<<DB, c[1], c[2], Ptr(0)>> : c \in Callbacks} \cup InvalidSubscribeArgs
    ELSE {}

\* ditto_unsubscribe: every id handed out so far or not, and 0, the id of a slot
\* never used
UnsubscribeArgs ==
    ({DB} \X (0..MaxSubId)) \cup {<<NULL, 1>>}

NotifyPutArgs ==
    ({DB} \X {Ptr(KeyA), Ptr(KeyB)} \X {Ptr(<<7>>)})
    \cup {<<NULL, Ptr(KeyA), Ptr(<<7>>)>>, <<DB, NULL, Ptr(<<7>>)>>, <<DB, Ptr(KeyA), NULL>>}

NotifyGetArgs == {<<DB, Ptr(KeyA), Ptr(Buffer(1)), Ptr(1)>>}

NotifyDeleteArgs ==
    ({DB} \X {Ptr(KeyA), Ptr(KeyB)}) \cup {<<NULL, Ptr(KeyA)>>, <<DB, NULL>>}

NotifyCall(t) ==
    \/ \E a \in NotifyPutArgs : ditto_put(t, a[1], a[2], a[3])
    \/ \E a \in NotifyGetArgs : ditto_get(t, a[1], a[2], a[3], a[4])
    \/ \E a \in NotifyDeleteArgs : ditto_delete(t, a[1], a[2])
    \/ \E a \in SubscribeArgs : ditto_subscribe(t, a[1], a[2], a[3], a[4])
    \/ \E a \in UnsubscribeArgs : ditto_unsubscribe(t, a[1], a[2])

RegistryStep(t) ==
    \/ notify_callback(t)
    \/ subscribe_locked(t)
    \/ unsubscribe_locked(t)

NextNotify == NotifyCall("t1") \/ StoreStep("t1") \/ RegistryStep("t1")

SpecNotify == Init /\ [][NextNotify]_vars

(***************************************************************************)
(* SpecCap: one caller thread filling the subscription table               *)
(***************************************************************************)
\* ditto_subscribe is called while next_sub_id <= MAX_SUBSCRIPTIONS + MaxRefill
CapSubscribeArgs ==
    IF next_sub_id <= MAX_SUBSCRIPTIONS + MaxRefill
    THEN {<<DB, Ptr("cb1"), Ptr("ctx1"), Ptr(0)>>} \cup InvalidSubscribeArgs
    ELSE {}

\* ditto_unsubscribe of the ids that the last slot gets
CapUnsubscribeArgs ==
    ({DB} \X (MAX_SUBSCRIPTIONS..(MAX_SUBSCRIPTIONS + MaxRefill))) \cup {<<NULL, 1>>}

CapPutArgs ==
    ({DB} \X {Ptr(KeyA)} \X {Ptr(<<7>>), Ptr(<<8, 9>>)})
    \cup {<<NULL, Ptr(KeyA), Ptr(<<7>>)>>, <<DB, NULL, Ptr(<<7>>)>>, <<DB, Ptr(KeyA), NULL>>}

CapGetArgs ==
    {<<DB, Ptr(KeyA), Ptr(Buffer(1)), Ptr(1)>>,
     <<NULL, Ptr(KeyA), Ptr(Buffer(1)), Ptr(1)>>,
     <<DB, NULL, Ptr(Buffer(1)), Ptr(1)>>,
     <<DB, Ptr(KeyA), Ptr(Buffer(1)), NULL>>}

CapDeleteArgs == {<<DB, Ptr(KeyA)>>, <<NULL, Ptr(KeyA)>>, <<DB, NULL>>}

CapCall(t) ==
    \/ \E a \in CapPutArgs : ditto_put(t, a[1], a[2], a[3])
    \/ \E a \in CapGetArgs : ditto_get(t, a[1], a[2], a[3], a[4])
    \/ \E a \in CapDeleteArgs : ditto_delete(t, a[1], a[2])
    \/ \E a \in CapSubscribeArgs : ditto_subscribe(t, a[1], a[2], a[3], a[4])
    \/ \E a \in CapUnsubscribeArgs : ditto_unsubscribe(t, a[1], a[2])

NextCap == CapCall("t1") \/ StoreStep("t1") \/ RegistryStep("t1")

SpecCap == Init /\ [][NextCap]_vars

(***************************************************************************)
(* SpecConc: two caller threads driving one store concurrently             *)
(***************************************************************************)
ConcPutArgs == {<<DB, Ptr(KeyA), Ptr(<<7>>)>>}

ConcDeleteArgs == {<<DB, Ptr(KeyA)>>}

\* ditto_subscribe is called while next_sub_id <= MaxConcId
ConcSubscribeArgs ==
    IF next_sub_id <= MaxConcId
    THEN {<<DB, Ptr("cb1"), Ptr("ctx1"), Ptr(0)>>, <<DB, NULL, Ptr("ctx1"), Ptr(0)>>}
    ELSE {}

ConcUnsubscribeArgs == {DB} \X (1..MaxConcId)

ConcCall(t) ==
    \/ \E a \in ConcPutArgs : ditto_put(t, a[1], a[2], a[3])
    \/ \E a \in ConcDeleteArgs : ditto_delete(t, a[1], a[2])
    \/ \E a \in ConcSubscribeArgs : ditto_subscribe(t, a[1], a[2], a[3], a[4])
    \/ \E a \in ConcUnsubscribeArgs : ditto_unsubscribe(t, a[1], a[2])

ConcStep(t) ==
    \/ lock_table(t)
    \/ \E alloc \in AllocOutcomes : put_locked(t, alloc)
    \/ delete_locked(t)
    \/ lock_sub(t)
    \/ notify_return(t)
    \/ caller_continues(t)

NextConc == \E t \in Threads : ConcCall(t) \/ ConcStep(t) \/ RegistryStep(t)

SpecConc == Init /\ [][NextConc]_vars

(***************************************************************************)
(* SpecKeyed: two caller threads driving put, get and delete on two keys   *)
(* of one bucket                                                           *)
(***************************************************************************)
\* two values for "a", one for "a@"
KeyedPutArgs ==
    {<<DB, Ptr(KeyA), Ptr(<<7>>)>>, <<DB, Ptr(KeyA), Ptr(<<8, 9>>)>>,
     <<DB, Ptr(KeyA2), Ptr(<<7>>)>>}

KeyedGetArgs == {<<DB, Ptr(KeyA), Ptr(Buffer(MaxCap)), Ptr(MaxCap)>>}

KeyedDeleteArgs == {DB} \X {Ptr(KeyA), Ptr(KeyA2)}

KeyedCall(t) ==
    \/ \E a \in KeyedPutArgs : ditto_put(t, a[1], a[2], a[3])
    \/ \E a \in KeyedGetArgs : ditto_get(t, a[1], a[2], a[3], a[4])
    \/ \E a \in KeyedDeleteArgs : ditto_delete(t, a[1], a[2])

NextKeyed == \E t \in Threads : KeyedCall(t) \/ StoreStep(t)

SpecKeyed == Init /\ [][NextKeyed]_vars

(***************************************************************************)
(* SpecReenter: two caller threads, and callbacks that call the store that *)
(* is notifying them                                                       *)
(***************************************************************************)
ReenterPutArgs(f) ==
    IF f \in Threads THEN {<<DB, Ptr(KeyA), Ptr(<<7>>)>>}
    ELSE {<<DB, Ptr(KeyA), Ptr(<<8, 9>>)>>}

ReenterGetArgs(f) == {<<DB, Ptr(KeyA), Ptr(Buffer(MaxCap)), Ptr(MaxCap)>>}

ReenterDeleteArgs(f) == {<<DB, Ptr(KeyA)>>}

\* ditto_subscribe is called while next_sub_id <= MaxConcId
ReenterSubscribeArgs(f) ==
    IF next_sub_id <= MaxConcId THEN {<<DB, Ptr("cb1"), Ptr("ctx1"), Ptr(0)>>} ELSE {}

ReenterUnsubscribeArgs(f) == {<<DB, 1>>}

ReenterCall(f) ==
    \/ \E a \in ReenterPutArgs(f) : ditto_put(f, a[1], a[2], a[3])
    \/ \E a \in ReenterGetArgs(f) : ditto_get(f, a[1], a[2], a[3], a[4])
    \/ \E a \in ReenterDeleteArgs(f) : ditto_delete(f, a[1], a[2])
    \/ \E a \in ReenterSubscribeArgs(f) : ditto_subscribe(f, a[1], a[2], a[3], a[4])
    \/ \E a \in ReenterUnsubscribeArgs(f) : ditto_unsubscribe(f, a[1], a[2])

CallbackStep(t) ==
    \/ callback_enters(t)
    \/ callback_returns(t)

NextReenter ==
    \/ \E f \in Frames : ReenterCall(f) \/ StoreStep(f) \/ RegistryStep(f)
    \/ \E t \in Threads : CallbackStep(t)

SpecReenter == Init /\ [][NextReenter]_vars

(***************************************************************************)
(* SpecLive: two caller threads driving all five entry points, scheduled   *)
(* fairly                                                                  *)
(***************************************************************************)
\* ditto_subscribe is called while next_sub_id <= MaxLiveId
MaxLiveId == 1

\* both threads put; one also gets and subscribes, the other deletes and
\* unsubscribes
LivePutArgs(t) == {<<DB, Ptr(KeyA), Ptr(<<7>>)>>}

LiveGetArgs(t) == IF t = "t1" THEN {<<DB, Ptr(KeyA), Ptr(Buffer(1)), Ptr(1)>>} ELSE {}

LiveDeleteArgs(t) == IF t = "t2" THEN {<<DB, Ptr(KeyA)>>} ELSE {}

LiveSubscribeArgs(t) ==
    IF t = "t1" /\ next_sub_id <= MaxLiveId
    THEN {<<DB, Ptr("cb1"), Ptr("ctx1"), Ptr(0)>>}
    ELSE {}

LiveUnsubscribeArgs(t) == IF t = "t2" THEN {DB} \X (1..MaxLiveId) ELSE {}

LiveCall(t) ==
    \/ \E a \in LivePutArgs(t) : ditto_put(t, a[1], a[2], a[3])
    \/ \E a \in LiveGetArgs(t) : ditto_get(t, a[1], a[2], a[3], a[4])
    \/ \E a \in LiveDeleteArgs(t) : ditto_delete(t, a[1], a[2])
    \/ \E a \in LiveSubscribeArgs(t) : ditto_subscribe(t, a[1], a[2], a[3], a[4])
    \/ \E a \in LiveUnsubscribeArgs(t) : ditto_unsubscribe(t, a[1], a[2])

NextLive == \E t \in Threads : LiveCall(t) \/ StoreStep(t) \/ RegistryStep(t)

\* what thread t does while it holds a mutex: a running thread goes on running
section_step(t) ==
    \/ \E alloc \in AllocOutcomes : put_locked(t, alloc)
    \/ get_locked(t)
    \/ delete_locked(t)
    \/ notify_callback(t)
    \/ notify_return(t)
    \/ subscribe_locked(t)
    \/ unsubscribe_locked(t)

\* a thread inside a call keeps being scheduled: it goes on inside a section, and
\* its pthread_mutex_lock returns if the mutex stays free.  The mutexes have the
\* default attributes (pthread_mutex_init(&m, NULL)), which do not say who gets a
\* mutex that several threads want, so a waiter that finds the mutex taken again
\* each time it is released is not promised anything.  Nothing makes a caller
\* start a call.
Fairness ==
    \A t \in Threads :
        /\ WF_vars(section_step(t))
        /\ WF_vars(lock_table(t))
        /\ WF_vars(lock_sub(t))

SpecLive == Init /\ [][NextLive]_vars /\ Fairness

(***************************************************************************)
(* SpecClose: one caller thread that uses the store and closes it          *)
(***************************************************************************)
\* the other entry points are called on an open handle only
ClosePutArgs ==
    IF db_mem = "open" THEN {DB} \X {Ptr(KeyA), Ptr(KeyB)} \X {Ptr(<<7>>)} ELSE {}

CloseGetArgs ==
    IF db_mem = "open" THEN {<<DB, Ptr(KeyA), Ptr(Buffer(1)), Ptr(1)>>} ELSE {}

CloseDeleteArgs == IF db_mem = "open" THEN {<<DB, Ptr(KeyA)>>} ELSE {}

CloseSubscribeArgs ==
    IF db_mem = "open" /\ next_sub_id <= MaxSubId
    THEN {<<DB, Ptr("cb1"), Ptr("ctx1"), Ptr(0)>>}
    ELSE {}

CloseUnsubscribeArgs == IF db_mem = "open" THEN {DB} \X (1..MaxSubId) ELSE {}

\* ditto_close of the handle, open or not, and of NULL
CloseArgs == {DB, NULL}

\* what a call that has run into undefined behaviour does next
UndefinedOutcomes == {"returned", "crashed"}

CloseCall(t) ==
    \/ \E a \in ClosePutArgs : ditto_put(t, a[1], a[2], a[3])
    \/ \E a \in CloseGetArgs : ditto_get(t, a[1], a[2], a[3], a[4])
    \/ \E a \in CloseDeleteArgs : ditto_delete(t, a[1], a[2])
    \/ \E a \in CloseSubscribeArgs : ditto_subscribe(t, a[1], a[2], a[3], a[4])
    \/ \E a \in CloseUnsubscribeArgs : ditto_unsubscribe(t, a[1], a[2])
    \/ \E db \in CloseArgs, outcome \in UndefinedOutcomes : ditto_close(t, db, outcome)

NextClose == CloseCall("t1") \/ StoreStep("t1") \/ RegistryStep("t1")

SpecClose == Init /\ [][NextClose]_vars

(***************************************************************************)
(* SpecWrap: one caller thread on a handle that has been in use for long,  *)
(* so that next_sub_id is about to leave the range of int32_t or about to  *)
(* come back to an id that is still active.  The history variables granted *)
(* and released start with the registrations that are still active and     *)
(* record what happens from the first state on.                            *)
(***************************************************************************)
\* successful subscribes recorded in one behaviour
MaxWrap == 3

\* the handle after ditto_open and INT32_MAX - 2 times ditto_subscribe followed by
\* ditto_unsubscribe of the id it returned: slot 0 was used every time
RegistryNearLimit ==
    [subscriptions |-> [s \in {0} |-> [id |-> INT32_MAX - 2, callback |-> NULL,
                                       user_data |-> NULL, active |-> 0]],
     next_sub_id |-> INT32_MAX - 1,
     granted |-> <<>>]

\* the handle after ditto_open, a ditto_subscribe that returned 1 and is still
\* active, and ditto_subscribe followed by ditto_unsubscribe of the returned id
\* for the ids 2 .. INT32_MAX, INT32_MIN .. -2: slot 1 was used every time
RegistryWrapped ==
    [subscriptions |->
         [s \in {0, 1} |->
             IF s = 0
             THEN [id |-> 1, callback |-> Ptr("cb1"), user_data |-> Ptr("ctx1"),
                   active |-> 1]
             ELSE [id |-> -2, callback |-> NULL, user_data |-> NULL, active |-> 0]],
     next_sub_id |-> -1,
     granted |-> <<[slot |-> 0, id |-> 1, cb |-> Ptr("cb1"), user_data |-> Ptr("ctx1")]>>]

InitWrap ==
    /\ buckets = hash_table_create
    /\ table_lock = NoThread
    /\ \E r \in {RegistryNearLimit, RegistryWrapped} :
          /\ subscriptions = r.subscriptions
          /\ next_sub_id = r.next_sub_id
          /\ granted = r.granted
    /\ sub_lock = NoThread
    /\ pc = [t \in Frames |-> IF t \in Threads THEN "idle" ELSE "off"]
    /\ call = [t \in Frames |-> NoCall]
    /\ ret = [t \in Frames |-> NoRet]
    /\ notify_i = [t \in Frames |-> 0]
    /\ invoked = [t \in Frames |-> <<>>]
    /\ last_mut = [k \in Keys |-> NoMutation]
    /\ last_op = [op |-> "none"]
    /\ released = {}
    /\ window = [t \in Frames |-> {}]
    /\ db_mem = "open"

\* ditto_subscribe is called while at most MaxWrap subscribes are recorded
WrapSubscribeArgs ==
    IF Len(granted) <= MaxWrap
    THEN {<<DB, Ptr("cb2"), NULL, Ptr(0)>>}
    ELSE {}

\* ditto_unsubscribe of every id that a slot holds or held last
WrapUnsubscribeArgs ==
    {<<DB, subscriptions[s].id>> : s \in DOMAIN subscriptions}

WrapPutArgs == {<<DB, Ptr(KeyA), Ptr(<<7>>)>>}

WrapGetArgs == {<<DB, Ptr(KeyA), Ptr(Buffer(1)), Ptr(1)>>}

WrapDeleteArgs == {<<DB, Ptr(KeyA)>>}

WrapCall(t) ==
    \/ \E a \in WrapPutArgs : ditto_put(t, a[1], a[2], a[3])
    \/ \E a \in WrapGetArgs : ditto_get(t, a[1], a[2], a[3], a[4])
    \/ \E a \in WrapDeleteArgs : ditto_delete(t, a[1], a[2])
    \/ \E a \in WrapSubscribeArgs : ditto_subscribe(t, a[1], a[2], a[3], a[4])
    \/ \E a \in WrapUnsubscribeArgs : ditto_unsubscribe(t, a[1], a[2])

NextWrap == WrapCall("t1") \/ StoreStep("t1") \/ RegistryStep("t1")

SpecWrap == InitWrap /\ [][NextWrap]_vars

(***************************************************************************)
(* Claims about the keyed store                                            *)
(***************************************************************************)
\* thread t's call has returned from ditto_get after passing the argument check
GetReturned(t) ==
    /\ pc[t] = "returned"
    /\ call[t].op = "get"
    /\ call[t].db # NULL /\ call[t].key # NULL /\ call[t].inout_len # NULL

GetKey(t) == Deref(call[t].key)

GetCap(t) == Deref(call[t].inout_len)

\* C1: last write wins.  When the most recent successful mutation of K is put(K, V2),
\* whatever K held before, a ditto_get of K into a buffer of at least Len(V2) bytes
\* returns 0, reports Len(V2) and has copied exactly the bytes of V2.
C1_LastWriteWins ==
    \A t \in Threads :
        (/\ GetReturned(t)
         /\ last_mut[GetKey(t)].op = "put"
         /\ call[t].out_buf # NULL
         /\ GetCap(t) >= Len(last_mut[GetKey(t)].data))
        => LET v2 == last_mut[GetKey(t)].data
           IN  /\ ret[t].rc = 0
               /\ ret[t].inout_len = Ptr(Len(v2))
               /\ SubSeq(Deref(ret[t].out_buf), 1, Len(v2)) = v2

\* C1 witness: a get returned V2 right after put(K, V2) replaced a V1 of another length
C1_Witness ==
    \E t \in Threads :
        /\ GetReturned(t)
        /\ ret[t].rc = 0
        /\ last_op.op = "put" /\ last_op.key = GetKey(t)
        /\ last_op.old # NULL
        /\ Len(Deref(last_op.old)) > Len(last_mut[GetKey(t)].data)
        /\ Len(last_mut[GetKey(t)].data) > 0
        /\ Deref(ret[t].out_buf) = last_mut[GetKey(t)].data

\* C2: a ditto_get of K returns 2 (not found) exactly when K was never put
\* successfully or the most recent successful mutation of K is a delete.
C2_NotFoundIffNoLiveEntry ==
    \A t \in Threads :
        GetReturned(t) =>
            (ret[t].rc = 2 <=> last_mut[GetKey(t)].op \in {"none", "delete"})

\* C2 witness: not found after put and delete of "a" while "a@", which shares the
\* bucket of "a", is stored
C2_Witness ==
    \E t \in Threads :
        /\ GetReturned(t)
        /\ GetKey(t) = KeyA
        /\ ret[t].rc = 2
        /\ last_mut[KeyA].op = "delete"
        /\ last_mut[KeyA2].op = "put"
        /\ hash_string(KeyA) = hash_string(KeyA2)

\* C3: a ditto_get of a present key K holding V with *inout_len < Len(V) returns 1,
\* sets *inout_len to Len(V), leaves the destination buffer as it was and leaves
\* the entry as it was, so that a get with capacity Len(V) returns V.
C3_BufferTooSmall ==
    \A t \in Threads :
        (/\ GetReturned(t)
         /\ last_mut[GetKey(t)].op = "put"
         /\ GetCap(t) < Len(last_mut[GetKey(t)].data))
        => LET v     == last_mut[GetKey(t)].data
               retry == hash_table_get(buckets, GetKey(t), Ptr(Buffer(Len(v))), Len(v))
           IN  /\ ret[t].rc = 1
               /\ ret[t].inout_len = Ptr(Len(v))
               /\ ret[t].out_buf = call[t].out_buf
               /\ stored(buckets, GetKey(t)) = Ptr(v)
               /\ retry.rc = 0 /\ retry.out_buf = Ptr(v) /\ retry.inout_len = Len(v)

\* C3 witness: a one-byte buffer offered for a two-byte value
C3_Witness ==
    \E t \in Threads :
        /\ GetReturned(t)
        /\ ret[t].rc = 1
        /\ call[t].out_buf = Ptr(Buffer(1))
        /\ GetCap(t) = 1
        /\ Len(last_mut[GetKey(t)].data) = 2

\* the entry the table holds for key (only used where there is one)
entry_of(tbl, key) ==
    LET chain == bucket(tbl, hash_string(key))
    IN  chain[chain_find(chain, key)]

\* C4 as stated: every ditto_get that passes the argument check for a present key
\* of stored length L with *inout_len >= L returns 0 and reports L.
C4_Original ==
    \A t \in Threads :
        (/\ GetReturned(t)
         /\ stored(buckets, GetKey(t)) # NULL
         /\ GetCap(t) >= entry_of(buckets, GetKey(t)).len)
        => /\ ret[t].rc = 0
           /\ ret[t].inout_len = Ptr(entry_of(buckets, GetKey(t)).len)

\* C4 amended: every ditto_get that passes the argument check with a non-NULL
\* destination buffer, for a present key of stored length L with *inout_len >= L,
\* returns 0 (not 1) and reports exactly L.
C4_SufficientCapacity ==
    \A t \in Threads :
        (/\ GetReturned(t)
         /\ call[t].out_buf # NULL
         /\ stored(buckets, GetKey(t)) # NULL
         /\ GetCap(t) >= entry_of(buckets, GetKey(t)).len)
        => /\ ret[t].rc = 0
           /\ ret[t].inout_len = Ptr(entry_of(buckets, GetKey(t)).len)

\* C4 witness: a buffer larger than the value, and the length reported is the value's
C4_Witness ==
    \E t \in Threads :
        /\ GetReturned(t)
        /\ call[t].out_buf # NULL
        /\ stored(buckets, GetKey(t)) # NULL
        /\ GetCap(t) > entry_of(buckets, GetKey(t)).len
        /\ ret[t].rc = 0
        /\ ret[t].inout_len = Ptr(1)

(***************************************************************************)
(* Claims about the notification registry                                  *)
(***************************************************************************)
ActiveSlots == {s \in Slots : slot(subscriptions, s).active # 0}

\* the successful ditto_subscribe that filled slot s last (only used where there
\* is one, as for every active slot)
registration(s) ==
    granted[CHOOSE k \in 1..Len(granted) :
                /\ granted[k].slot = s
                /\ \A j \in (k + 1)..Len(granted) : granted[j].slot # s]

\* thread t's call is a ditto_put or ditto_delete that has returned 0
MutationReturned(t) ==
    /\ pc[t] = "returned"
    /\ call[t].op \in {"put", "delete"}
    /\ ret[t].rc = 0

\* C5: a ditto_put or ditto_delete of K that returns 0 has, when it returns, invoked
\* the callback of every active subscription exactly once, with the context
\* registered with it and K, and has invoked nothing else; a call that is no
\* successful put or delete (a failed one, a ditto_get) invokes no callback.
C5_FanOutExactlyOnce ==
    \A t \in Threads :
        /\ MutationReturned(t) =>
              /\ Len(invoked[t]) = Cardinality(ActiveSlots)
              /\ \A s \in ActiveSlots :
                    \E i \in 1..Len(invoked[t]) :
                        /\ invoked[t][i].slot = s
                        /\ invoked[t][i].id = slot(subscriptions, s).id
                        /\ invoked[t][i].id = registration(s).id
                        /\ invoked[t][i].callback = registration(s).cb
                        /\ invoked[t][i].user_data = registration(s).user_data
                        /\ invoked[t][i].key = Deref(call[t].key)
                        /\ \A j \in 1..Len(invoked[t]) : invoked[t][j].slot = s => j = i
        /\ invoked[t] # <<>> =>
              /\ call[t].op \in {"put", "delete"}
              /\ pc[t] \in {"notify", "returned"}
              /\ ret[t].rc = 0

\* C5 witness: a delete has notified two subscriptions with different callbacks
\* and contexts
C5_Witness ==
    \E t \in Threads :
        /\ MutationReturned(t)
        /\ call[t].op = "delete"
        /\ Len(invoked[t]) = 2
        /\ invoked[t][1].callback # invoked[t][2].callback
        /\ invoked[t][1].user_data # invoked[t][2].user_data
        /\ invoked[t][1].slot = 1

\* the invocation a step of thread t adds, as a set
Invoked(t) ==
    IF Len(invoked'[t]) > Len(invoked[t]) THEN {invoked'[t][Len(invoked'[t])]} ELSE {}

\* thread t's ditto_unsubscribe of an id in ids returns in this step
UnsubscribeReturns(t, ids) ==
    /\ call[t].op = "unsubscribe"
    /\ pc[t] = "sub_body"
    /\ pc'[t] = "returned"
    /\ call[t].sub_id \in ids

\* C6: once a ditto_unsubscribe(S) has returned 0, no thread's fan-out invokes the
\* subscription S, and every later ditto_unsubscribe(S) returns -1 and leaves the
\* slots and the id counter as they were.
C6_NoCallbackAfterUnsubscribe ==
    [][\A t \in Threads :
          /\ \A c \in Invoked(t) : c.id \notin released
          /\ UnsubscribeReturns(t, released) =>
                /\ ret'[t].rc = -1
                /\ subscriptions' = subscriptions
                /\ next_sub_id' = next_sub_id]_vars

\* C6 witness: ditto_unsubscribe(1) has returned 0 on one thread while another
\* thread's put has updated the table and not yet begun its fan-out, which then
\* invokes the other subscription only
C6_Witness ==
    \E t, u \in Threads :
        /\ pc[t] = "returned" /\ call[t].op = "unsubscribe" /\ ret[t].rc = 0
        /\ call[t].sub_id = 1
        /\ pc[u] = "notify" /\ call[u].op = "put"
        /\ Len(invoked[u]) = 1 /\ invoked[u][1].id = 2
        /\ 1 \in released

\* C7: at most MAX_SUBSCRIPTIONS subscriptions are active; a ditto_subscribe that
\* passes the argument check returns 0 and activates one more slot when fewer than
\* MAX_SUBSCRIPTIONS are active, and returns -1 when MAX_SUBSCRIPTIONS are.
C7_Capacity ==
    /\ [](Cardinality(ActiveSlots) <= MAX_SUBSCRIPTIONS)
    /\ [][\A t \in Threads :
             (call[t].op = "subscribe" /\ pc[t] = "sub_body" /\ pc'[t] = "returned")
             => /\ (Cardinality(ActiveSlots) < MAX_SUBSCRIPTIONS) => ret'[t].rc = 0
                /\ (Cardinality(ActiveSlots) = MAX_SUBSCRIPTIONS) => ret'[t].rc = -1
                /\ ret'[t].rc = 0 =>
                      Cardinality(ActiveSlots') = Cardinality(ActiveSlots) + 1]_vars

\* C7 witness: the table was full, a subscribe failed, an unsubscribe released a
\* slot and the next subscribe has succeeded, filling the table again
C7_Witness ==
    \E t \in Threads :
        /\ pc[t] = "returned" /\ call[t].op = "subscribe" /\ ret[t].rc = 0
        /\ Cardinality(ActiveSlots) = MAX_SUBSCRIPTIONS
        /\ ret[t].out_sub_id = Ptr(MAX_SUBSCRIPTIONS + 1)
        /\ released = {MAX_SUBSCRIPTIONS}

\* C8, as the claim states it for a handle of any age: every id a successful
\* ditto_subscribe returned is >= 1 and larger than every id returned before it
\* (the k-th returns k), so that no id is returned twice, and no two active slots
\* hold the same id.
C8_IdsNeverRepeat ==
    /\ \A k \in 1..Len(granted) : granted[k].id >= 1
    /\ \A j, k \in 1..Len(granted) : j < k => granted[j].id < granted[k].id
    /\ \A s1, s2 \in ActiveSlots :
          slot(subscriptions, s1).id = slot(subscriptions, s2).id => s1 = s2
    /\ \A t \in Threads :
          (pc[t] = "returned" /\ call[t].op = "subscribe" /\ ret[t].rc = 0)
          => Deref(ret[t].out_sub_id) >= 1

\* C8 on a fresh handle, while fewer than INT32_MAX subscribes have succeeded: the
\* k-th successful ditto_subscribe returned id k, next_sub_id counts the
\* successful ones only, no two active slots hold the same id, and every active
\* slot holds the id its registration was given.
C8_SubscriptionIds ==
    /\ \A k \in 1..Len(granted) : granted[k].id = k
    /\ next_sub_id = Len(granted) + 1
    /\ \A s1, s2 \in ActiveSlots :
          slot(subscriptions, s1).id = slot(subscriptions, s2).id => s1 = s2
    /\ \A s \in ActiveSlots : slot(subscriptions, s).id \in 1..Len(granted)
    /\ \A t \in Threads :
          (pc[t] = "returned" /\ call[t].op = "subscribe" /\ ret[t].rc = 0)
          => Deref(ret[t].out_sub_id) \in 1..Len(granted)

\* C8 witness: slot 0, released by ditto_unsubscribe(1), is reused under id 2 while
\* the other thread has a failed subscribe behind it
C8_Witness ==
    \E t, u \in Threads :
        /\ pc[t] = "returned" /\ call[t].op = "subscribe" /\ ret[t].rc = 0
        /\ ret[t].out_sub_id = Ptr(2)
        /\ slot(subscriptions, 0).active # 0 /\ slot(subscriptions, 0).id = 2
        /\ 1 \in released
        /\ pc[u] = "returned" /\ call[u].op = "subscribe" /\ ret[u].rc = -1

\* thread t's call gets its status in this step
Decided(t) == ret[t] = NoRet /\ ret'[t] # NoRet

\* C9: the table, the slots and the id counter change only in the step in which a
\* call gets status 0, so a call that ends with another status has changed none
\* of them; and only a call with status 0 has invoked a callback.
C9_NoPartialEffect ==
    /\ [][(buckets' # buckets \/ subscriptions' # subscriptions
           \/ next_sub_id' # next_sub_id)
          => \E t \in Threads : Decided(t) /\ ret'[t].rc = 0]_vars
    /\ [](\A t \in Threads : invoked[t] # <<>> => ret[t].rc = 0)

\* C9 witness: a put of an existing key has failed in malloc with the table full of
\* subscriptions; the old value is in place and no callback was invoked
C9_Witness ==
    \E t \in Threads :
        /\ pc[t] = "returned" /\ call[t].op = "put" /\ ret[t].rc = -1
        /\ call[t].db # NULL /\ call[t].key # NULL /\ call[t].data # NULL
        /\ stored(buckets, Deref(call[t].key)) # NULL
        /\ stored(buckets, Deref(call[t].key)) # call[t].data
        /\ Cardinality(ActiveSlots) = MAX_SUBSCRIPTIONS
        /\ invoked[t] = <<>>

\* thread t's call passed the argument check of its entry point
ArgumentsValid(t) ==
    /\ call[t].db # NULL
    /\ call[t].op = "put" => call[t].key # NULL /\ call[t].data # NULL
    /\ call[t].op = "subscribe" => call[t].cb # NULL /\ call[t].out_sub_id # NULL

\* C10 as stated: the status ditto_put returns when an allocation fails, and the
\* status ditto_subscribe returns when every slot is active, differ from the status
\* they return for an argument error.
C10_DistinctStatuses ==
    \A t \in Threads :
        (/\ pc[t] = "returned"
         /\ call[t].op \in {"put", "subscribe"}
         /\ ArgumentsValid(t)
         /\ ret[t].rc # 0)
        => ret[t].rc # ARGUMENT_ERROR

(***************************************************************************)
(* Claims about concurrent callers                                         *)
(***************************************************************************)
\* what a ditto_get with a large enough buffer returns when the key is in state w
get_observes(r, w) ==
    IF w.op = "put"
    THEN /\ r.rc = 0
         /\ r.inout_len = Ptr(Len(w.data))
         /\ SubSeq(Deref(r.out_buf), 1, Len(w.data)) = w.data
    ELSE r.rc = 2

\* C11: only one thread at a time is inside a table section, and every call on K
\* observes one of the states K has had between the call's invocation and its
\* return: a ditto_get returns the value of one such state whole (or 2 when K was
\* absent in one), a ditto_delete returns 0 when K was present in one and 2 when
\* it was absent in one.  A mutation that returned before the call was invoked
\* is the first of these states or is overwritten in it.
C11_PerKeySequentialConsistency ==
    /\ [](\A t, u \in Frames :
             (pc[t] = "table_body" /\ pc[u] = "table_body") => t = u)
    /\ [](\A t \in Threads :
             (GetReturned(t) /\ call[t].out_buf # NULL)
             => \E w \in window[t] : get_observes(ret[t], w))
    /\ [][\A t \in Threads :
             (Decided(t) /\ call[t].op = "delete" /\ call[t].db # NULL
              /\ call[t].key # NULL)
             => /\ ret'[t].rc = 0 => \E w \in window[t] : w.op = "put"
                /\ ret'[t].rc = 2 => \E w \in window[t] : w.op # "put"
                /\ ret'[t].rc \in {0, 2}]_vars

\* C11 witness: while a ditto_get of K was in progress the other thread replaced
\* K's value and returned; the get has returned the new value
C11_Witness ==
    \E t, u \in Threads :
        /\ GetReturned(t) /\ ret[t].rc = 0
        /\ Cardinality(window[t]) = 2
        /\ pc[u] = "returned" /\ call[u].op = "put" /\ ret[u].rc = 0
        /\ call[u].key = call[t].key
        /\ Deref(call[u].data) = <<8, 9>>
        /\ ret[t].inout_len = Ptr(2)
        /\ SubSeq(Deref(ret[t].out_buf), 1, 2) = <<8, 9>>
        /\ [op |-> "put", data |-> <<7>>] \in window[t]

\* the value the table holds for a key in state w
content(w) == IF w.op = "put" THEN Ptr(w.data) ELSE NULL

\* C12: while thread t's fan-out for its put or delete of K is under way, K's
\* latest mutation is t's or a later one and the table holds it; a ditto_get of K
\* made by a callback of that fan-out returns t's mutation or a later one.
C12_FanOutFollowsMutation ==
    \A t \in Threads :
        pc[t] \in {"notify", "in_callback"} =>
            LET K == Deref(call[t].key)
                c == callback_of(t)
            IN  /\ last_mut[K] \in window[t]
                /\ stored(buckets, K) = content(last_mut[K])
                /\ (GetReturned(c) /\ GetKey(c) = K)
                   => \E w \in window[t] : get_observes(ret[c], w)

\* C12 witness: the callback invoked for a put of K, K absent before, has called
\* ditto_get(K) and got the value just put
C12_Witness ==
    \E t \in Threads :
        /\ pc[t] = "in_callback" /\ call[t].op = "put"
        /\ GetReturned(callback_of(t))
        /\ GetKey(callback_of(t)) = Deref(call[t].key)
        /\ ret[callback_of(t)].rc = 0
        /\ ret[callback_of(t)].inout_len = Ptr(1)
        /\ SubSeq(Deref(ret[callback_of(t)].out_buf), 1, 1) = <<7>>
        /\ window[t] = {[op |-> "put", data |-> <<7>>]}
        /\ released = {}

\* frame t is inside a call that has not returned
InCall(t) == pc[t] \in {"table_lock", "table_body", "sub_lock", "sub_body", "notify"}

\* a mutex is held only by a thread inside the section it protects, so every
\* return path has released it; the section of sub_lock in notify_subscribers
\* includes the callbacks it calls
LocksHeldInSections ==
    /\ table_lock # NoThread => pc[table_lock] = "table_body"
    /\ sub_lock # NoThread => pc[sub_lock] \in {"sub_body", "notify", "in_callback"}

\* the assumption about the mutexes that the code does not establish: a thread
\* waiting in pthread_mutex_lock gets the mutex if it is free again and again
FairMutexes ==
    \A t \in Threads : SF_vars(lock_table(t)) /\ SF_vars(lock_sub(t))

\* C13 as stated: every return path has released its mutex, and under fair
\* scheduling every call returns.
C13_Original ==
    /\ []LocksHeldInSections
    /\ \A t \in Threads : InCall(t) ~> (pc[t] = "returned")

\* C13, amended: every return path has released its mutex; under fair scheduling
\* no thread keeps a mutex, each mutex is free again and again, so no state is a
\* deadlock; and every call returns if, in addition, the mutexes are handed to
\* waiting threads fairly.
C13_NoUnboundedBlocking ==
    /\ []LocksHeldInSections
    /\ []<>(table_lock = NoThread)
    /\ []<>(sub_lock = NoThread)
    /\ FairMutexes => \A t \in Threads : InCall(t) ~> (pc[t] = "returned")

\* C13 witness: one thread's ditto_unsubscribe waits for the subscription lock
\* while the other thread is in the middle of its fan-out
C13_Witness ==
    \E t, u \in Threads :
        /\ pc[t] = "sub_lock" /\ call[t].op = "unsubscribe"
        /\ sub_lock = u /\ pc[u] = "notify" /\ Len(invoked[u]) = 1
        /\ table_lock = NoThread

(***************************************************************************)
(* Further claims about the keyed store                                    *)
(***************************************************************************)
\* C14: on every reachable table a put of a zero-length value whose allocations
\* succeed returns 0, after which a get of the key with capacity 0 returns 0 or 1
\* (never 2) and reports length 0 and a delete of the key returns 0; and every ditto_get of a
\* key whose latest mutation is a put of a zero-length value returned so.
C14_ZeroLengthValues ==
    /\ \A k \in Keys :
          LET p == hash_table_put(buckets, k, <<>>, 0, "none")
          IN  /\ p.rc = 0
              /\ \A b \in {Ptr(Buffer(0)), Ptr(Buffer(1)), NULL} :
                    LET g == hash_table_get(p.buckets, k, b, 0)
                    IN  g.rc \in {0, 1} /\ g.inout_len = 0
              /\ hash_table_delete(p.buckets, k).rc = 0
    /\ \A t \in Threads :
          (GetReturned(t) /\ last_mut[GetKey(t)] = [op |-> "put", data |-> <<>>])
          => /\ ret[t].rc \in {0, 1}
             /\ ret[t].inout_len = Ptr(0)
             /\ ret[t].out_buf = call[t].out_buf

\* C14 witness: a zero-length value has replaced a longer one, and a ditto_get
\* into a one-byte buffer has returned 0 with length 0
C14_Witness ==
    \E t \in Threads :
        /\ GetReturned(t)
        /\ last_mut[GetKey(t)] = [op |-> "put", data |-> <<>>]
        /\ last_op.op = "put" /\ last_op.key = GetKey(t)
        /\ last_op.old # NULL /\ Len(Deref(last_op.old)) > 0
        /\ call[t].out_buf = Ptr(Buffer(1))
        /\ ret[t].rc = 0
        /\ ret[t].inout_len = Ptr(0)

\* C15 as stated, its part about a repeated close: a ditto_close on a handle that
\* ditto_close has already released uses no released memory and returns.
C15_CloseIdempotent ==
    /\ db_mem # "freed_touched"
    /\ \A t \in Threads : pc[t] # "crashed"

\* the parts of C15 that hold: a ditto_close of an open handle leaves no entry
\* behind, a ditto_close(NULL) changes nothing, and no callback is invoked by or
\* after a ditto_close of an open handle
C15_CloseReleases ==
    /\ db_mem = "freed" => buckets = hash_table_create
    /\ \A t \in Threads : call[t].op = "close" => invoked[t] = <<>>

\* C16: every entry lies in the chain of the bucket its key hashes to and no two
\* entries of the table have the same key; a successful delete of K removes K
\* and leaves every other key with the value it had.
C16_TableStructure ==
    /\ [](\A i \in DOMAIN buckets : \A p \in 1..Len(buckets[i]) :
             /\ hash_string(buckets[i][p].key) = i
             /\ \A j \in DOMAIN buckets : \A q \in 1..Len(buckets[j]) :
                   buckets[j][q].key = buckets[i][p].key => (j = i /\ q = p))
    /\ [][\A t \in Threads :
             (Decided(t) /\ call[t].op = "delete" /\ ret'[t].rc = 0)
             => /\ stored(buckets, Deref(call[t].key)) # NULL
                /\ stored(buckets', Deref(call[t].key)) = NULL
                /\ \A k \in Keys \ {Deref(call[t].key)} :
                      stored(buckets', k) = stored(buckets, k)]_vars

\* C16 witness: both threads were invoked to put "a@" while it had never been
\* put; one has inserted it in front of "a" and not yet returned, the other is inside
\* hash_table_put and finds the bucket with the two entries
C16_Witness ==
    \E t, u \in Threads :
        /\ pc[t] = "sub_lock" /\ pc[u] = "table_body"
        /\ call[t].op = "put" /\ call[u].op = "put"
        /\ call[t].key = Ptr(KeyA2) /\ call[u].key = Ptr(KeyA2)
        /\ window[u] = {NoMutation, [op |-> "put", data |-> <<7>>]}
        /\ last_op = [op |-> "put", key |-> KeyA2, old |-> NULL]
        /\ Len(bucket(buckets, hash_string(KeyA2))) = 2

(***************************************************************************)
(* Further claims about the notification registry                          *)
(***************************************************************************)
\* C17: the callbacks of one fan-out are invoked in increasing slot index, and a
\* successful ditto_subscribe activates the lowest slot that is not active, so
\* that a subscription taking a freed slot is notified before older ones in
\* higher slots.
C17_FanOutSlotOrder ==
    /\ [](\A t \in Threads : \A i, j \in 1..Len(invoked[t]) :
             i < j => invoked[t][i].slot < invoked[t][j].slot)
    /\ [][\A t \in Threads :
             (Decided(t) /\ call[t].op = "subscribe" /\ ret'[t].rc = 0)
             => \E s \in Slots \ ActiveSlots :
                   /\ ActiveSlots' = ActiveSlots \cup {s}
                   /\ slot(subscriptions', s).id = Deref(ret'[t].out_sub_id)
                   /\ \A q \in 0..(s - 1) : q \in ActiveSlots]_vars

\* C17 witness: subscription 3, registered after ditto_unsubscribe(1) into slot 0,
\* has been notified before subscription 2 in slot 1
C17_Witness ==
    \E t \in Threads :
        /\ MutationReturned(t)
        /\ Len(invoked[t]) = 2
        /\ invoked[t][1].id = 3 /\ invoked[t][1].slot = 0
        /\ invoked[t][2].id = 2 /\ invoked[t][2].slot = 1
        /\ 1 \in released

(***************************************************************************)
(* Claims about the two mutexes                                            *)
(***************************************************************************)
\* C18 as stated: no thread holds the table lock and the subscription lock at the
\* same time.
C18_Original ==
    \A f, g \in Frames :
        (table_lock = f /\ sub_lock = g) => thread_of(f) # thread_of(g)

\* C18: no call holds both mutexes; the notifying call does not hold the table
\* lock during its fan-out; a thread holds both only while a callback of its
\* fan-out is inside a table section of its own; and a callback waiting for the
\* table lock waits for another thread that is inside a table section, where
\* nothing blocks.
C18_LockDiscipline ==
    /\ \A f \in Frames : ~(table_lock = f /\ sub_lock = f)
    /\ \A t \in Threads : pc[t] \in {"notify", "in_callback"} => table_lock # t
    /\ \A f, g \in Frames :
          (table_lock = f /\ sub_lock = g /\ thread_of(f) = thread_of(g))
          => (f = callback_of(g) /\ pc[g] = "in_callback")
    /\ \A t \in Threads :
          pc[callback_of(t)] = "table_lock" =>
              \/ table_lock = NoThread
              \/ thread_of(table_lock) # t /\ pc[table_lock] = "table_body"

\* C18 witness: a callback's ditto_get is inside hash_table_get, so that its
\* thread holds the subscription lock and the table lock
C18_Witness ==
    \E t \in Threads :
        /\ pc[t] = "in_callback" /\ sub_lock = t
        /\ call[callback_of(t)].op = "get"
        /\ pc[callback_of(t)] = "table_body"
        /\ table_lock = callback_of(t)

\* thread t's fan-out is stuck: the callback it invoked waits for the
\* subscription lock, which t holds
Blocked(t) ==
    /\ pc[t] = "in_callback"
    /\ pc[callback_of(t)] = "sub_lock"
    /\ sub_lock = t

\* C19 as stated: a callback that calls subscribe, unsubscribe, put or delete on
\* the store that is notifying it never returns from that call.
C19_Original ==
    \A c \in CallbackFrames :
        pc[c] = "returned" => call[c].op \notin {"subscribe", "unsubscribe", "put", "delete"}

\* C19: a callback's call that comes to take the subscription lock (subscribe,
\* unsubscribe, and a put or delete whose table step returned 0) finds it held by
\* its own thread and never gets it; from then on the callback, the mutating call
\* that invoked it and every thread that comes to wait for the subscription lock
\* stay where they are.  The calls a callback returns from are ditto_get and a put
\* or delete that failed.
C19_ReentrancyDeadlock ==
    /\ [](\A t \in Threads :
             /\ pc[callback_of(t)] \notin {"sub_body", "notify"}
             /\ pc[callback_of(t)] = "sub_lock" => Blocked(t)
             /\ pc[callback_of(t)] = "returned" =>
                   \/ call[callback_of(t)].op = "get"
                   \/ /\ call[callback_of(t)].op \in {"put", "delete"}
                      /\ ret[callback_of(t)].rc # 0)
    /\ [][\A t \in Threads :
             Blocked(t) =>
                 /\ pc'[t] = "in_callback"
                 /\ pc'[callback_of(t)] = "sub_lock"
                 /\ sub_lock' = t
                 /\ \A f \in Frames : pc[f] = "sub_lock" => pc'[f] = "sub_lock"]_vars

\* C19 witness: a callback's ditto_unsubscribe waits for the subscription lock its
\* thread holds, and the other thread, its put applied to the table, waits for
\* the same lock
C19_Witness ==
    \E t, u \in Threads :
        /\ Blocked(t)
        /\ call[callback_of(t)].op = "unsubscribe"
        /\ u # t
        /\ pc[u] = "sub_lock" /\ call[u].op = "put"

\* C20: fan-outs do not interleave: at most one thread is inside the loop of
\* notify_subscribers, and a callback is invoked by a thread only while every
\* other thread's fan-out has either not begun or is complete.  (That two
\* fan-outs can come in the opposite order of their mutations is what the witness
\* shows.)
C20_FanOutsDoNotInterleave ==
    /\ [](\A t, u \in Frames : (pc[t] = "notify" /\ pc[u] = "notify") => t = u)
    /\ [][\A t \in Threads :
             Invoked(t) # {} =>
                 /\ sub_lock = t
                 /\ \A u \in Threads \ {t} :
                       /\ pc[u] # "notify"
                       /\ invoked[u] # <<>> => pc[u] = "returned"]_vars

\* C20 witness: thread t's put of K was applied to the table, then thread u's
\* delete of K; u's fan-out has been delivered and u has returned, while t's
\* fan-out has not begun
C20_Witness ==
    \E t, u \in Threads :
        /\ pc[t] = "sub_lock" /\ call[t].op = "put" /\ ret[t].rc = 0
        /\ pc[u] = "returned" /\ call[u].op = "delete" /\ ret[u].rc = 0
        /\ call[u].key = call[t].key
        /\ last_mut[Deref(call[t].key)].op = "delete"
        /\ window[t] = {[op |-> "put", data |-> Deref(call[t].data)],
                        [op |-> "delete", data |-> <<>>]}
        /\ Len(invoked[u]) = 1
        /\ invoked[u][1].key = Deref(call[t].key)

====
